---- MODULE Spec2Model ----
(***************************************************************************)
(* A model of the two notebooks of d2l-tensorflow-sagemaker:               *)
(*   - chapter_deep-learning-computation/model-construction.ipynb:         *)
(*     blocks (Dense, MLP, MySequential, FixedHiddenMLP, NestMLP,          *)
(*     Sequential), their construction, their forward computation and the  *)
(*     external trainer's update step;                                     *)
(*   - the GPU notebook (unnamed/part_000): try_gpu, try_all_gpus, device  *)
(*     scopes, name binding under a scope and addition of two tensors;     *)
(*   - the end of FixedHiddenMLP.call (the halving loop and the sum), step  *)
(*     by step, on float32 values that may be infinite or NaN.             *)
(*                                                                         *)
(* Tensors are abstracted to their shape and one number: every entry of a  *)
(* tensor has the same value num / 2^exp.  A Dense kernel is abstracted to *)
(* the sum of one of its columns (all columns alike), so that the layer    *)
(* maps the entry value v to act(v * kernel + bias) exactly.               *)
(***************************************************************************)
EXTENDS Integers, Sequences, FiniteSets, TLC

VARIABLES
    units,    \* the heap of blocks: id (an index) -> block record
    rng,      \* position of the global random generator
    last,     \* the most recent forward call: block, input, output, event log
    todo,     \* the constructor calls the script has still to make
    trains,   \* number of update steps made so far
    gpus,     \* GPU notebook: number of physical GPUs
    scope,    \* GPU notebook: the devices of the open `with` scopes, innermost last
    tensors,  \* GPU notebook: the heap of tensors: id -> device and value
    env,      \* GPU notebook: the tensor each name of the script is bound to (0: none)
    res,      \* GPU notebook: what the most recent statement returned
    hd,       \* halving loop: the output of the dense layer the loop starts from
    hx,       \* halving loop: the current value of x
    hk,       \* halving loop: iterations made so far
    hpc,      \* halving loop: "idle", "loop" or "done"
    hret      \* halving loop: what the call returned

blockVars == <<units, rng, last, todo, trains>>

gpuVars == <<gpus, scope, tensors, env, res>>

loopVars == <<hd, hx, hk, hpc, hret>>

vars == <<units, rng, last, todo, trains, gpus, scope, tensors, env, res,
          hd, hx, hk, hpc, hret>>

----------------------------------------------------------------------------
(* Bounds of the exploration. *)

MaxTrain == 1
MaxGpus == 2
MaxDepth == 1
MaxTensors == 2
MaxCallDepth == 5
MaxVal == 24
MaxIter == 12

(* Program constants. *)

HiddenUnits == 256
OutUnits == 10
FixedUnits == 20
NestUnits1 == 64
NestUnits2 == 32
NestUnits3 == 16
BatchSize == 2
InFeatures == 20

(* The values the random generator yields, in order (a draw advances rng). *)
RngStream == <<2, -1>>

NextRng(r) == (r + 1) % Len(RngStream)

(* A draw of the kernel initializer: a column sum of either sign. *)
GlorotDraw(r) == RngStream[r + 1]

(* A draw of tf.random.uniform: entries in [0, 1), so a column sum >= 0. *)
UniformDraw(r) == IF RngStream[r + 1] < 0 THEN -RngStream[r + 1] ELSE RngStream[r + 1]

----------------------------------------------------------------------------
(* Tensors. *)

Tensor(shape, num, exp) == [err |-> "none", shape |-> shape, num |-> num, exp |-> exp]

Raise(e) == [err |-> e, shape |-> <<>>, num |-> 0, exp |-> 0]

Failed(t) == t.err # "none"

Front(s) == SubSeq(s, 1, Len(s) - 1)

Relu(v) == IF v > 0 THEN v ELSE 0

RECURSIVE Prod(_)
Prod(s) == IF s = <<>> THEN 1 ELSE Head(s) * Prod(Tail(s))

RECURSIVE Pow(_, _)
Pow(b, e) == IF e = 0 THEN 1 ELSE b * Pow(b, e - 1)

(* tf.norm(x) > 1 for a tensor of n entries, each num / 2^exp. *)
NormAboveOne(n, num, exp) == n * num * num > Pow(4, exp)

----------------------------------------------------------------------------
(* Blocks. *)

Block(kind, width, relu, mods, rw) ==
    [kind |-> kind, units |-> width, relu |-> relu, built |-> FALSE,
     in_dim |-> 0, kernel |-> 0, bias |-> 0, mods |-> mods,
     rand_weight |-> rw, top |-> FALSE, layers |-> {}]

(* Keras attribute tracking: a Layer assigned to an attribute of a Model,  *)
(* or appended to a list that is an attribute of it, is registered as one  *)
(* of its layers.                                                          *)
Track(b, ids) == [b EXCEPT !.layers = @ \cup ids]

DenseLayer(width, relu) == Block("Dense", width, relu, <<>>, 0)

Top(b) == [b EXCEPT !.top = TRUE]

Ids == 1..Len(units)

Tops == {i \in Ids : units[i].top}

----------------------------------------------------------------------------
(* The forward computation.  A call returns its output (or the error it     *)
(* raised), the store it leaves (layers are built on their first call) and  *)
(* the log of the calls and returns it made.                                *)

Store == [units |-> units, rng |-> rng, depth |-> 0]

Event(ev, id, t) == [ev |-> ev, unit |-> id, t |-> t]

Result(out, st, log) == [out |-> out, st |-> st, log |-> log]

(* tf.keras.layers.Dense: built on its first call from the width of the    *)
(* input (the kernel is drawn, the bias is zero), later calls need that    *)
(* width.                                                                  *)
DenseBuild(d, w, r) ==
    [d EXCEPT !.built = TRUE, !.in_dim = w, !.kernel = GlorotDraw(r), !.bias = 0]

(* Mutant: the layer draws a new kernel on every call. *)
CallDenseRebuild(id, x, st, log) ==
    LET d == st.units[id] IN
    IF Len(x.shape) < 2 THEN Result(Raise("ShapeMismatch"), st, log)
    ELSE LET w == x.shape[Len(x.shape)]
             b == DenseBuild(d, IF d.built THEN d.in_dim ELSE w, st.rng)
             st1 == [st EXCEPT !.units[id] = b, !.rng = NextRng(st.rng)]
             v == x.num * b.kernel + b.bias
         IN IF b.in_dim # w THEN Result(Raise("ShapeMismatch"), st, log)
            ELSE Result(Tensor(Front(x.shape) \o <<d.units>>,
                               IF d.relu THEN Relu(v) ELSE v, 0), st1, log)

(* Mutant: the layer keeps the width of its input. *)
CallDenseKeepWidth(id, x, st, log) ==
    LET d == st.units[id] IN
    IF Len(x.shape) < 2 THEN Result(Raise("ShapeMismatch"), st, log)
    ELSE LET w == x.shape[Len(x.shape)]
             b == IF d.built THEN d ELSE DenseBuild(d, w, st.rng)
             st1 == IF d.built THEN st
                    ELSE [st EXCEPT !.units[id] = b, !.rng = NextRng(st.rng)]
             v == x.num * b.kernel + b.bias
         IN IF b.in_dim # w THEN Result(Raise("ShapeMismatch"), st, log)
            ELSE Result(Tensor(x.shape, IF d.relu THEN Relu(v) ELSE v, 0), st1, log)

CallDense(id, x, st, log) ==
    LET d == st.units[id] IN
    IF Len(x.shape) < 2 THEN Result(Raise("ShapeMismatch"), st, log)
    ELSE LET w == x.shape[Len(x.shape)]
             b == IF d.built THEN d ELSE DenseBuild(d, w, st.rng)
             st1 == IF d.built THEN st
                    ELSE [st EXCEPT !.units[id] = b, !.rng = NextRng(st.rng)]
             v == x.num * b.kernel + b.bias
         IN IF b.in_dim # w THEN Result(Raise("ShapeMismatch"), st, log)
            ELSE Result(Tensor(Front(x.shape) \o <<d.units>>,
                               IF d.relu THEN Relu(v) ELSE v, 0), st1, log)

(* tf.keras.layers.Flatten: keeps the batch dimension, merges the rest. *)
Flatten(x) ==
    IF Len(x.shape) = 0 THEN Raise("ShapeMismatch")
    ELSE Tensor(<<x.shape[1], Prod(Tail(x.shape))>>, x.num, x.exp)

(* while tf.norm(x) > 1: x /= 2 -- the number of halvings made. *)
RECURSIVE Halve(_, _, _)
Halve(n, num, exp) ==
    IF NormAboveOne(n, num, exp) THEN Halve(n, num, exp + 1) ELSE exp

(* Mutant: the weight is drawn in call instead of __init__. *)
RandWeightRedrawn(f, st) == UniformDraw(st.rng)

(* The constant weight FixedHiddenMLP.call multiplies by. *)
RandWeightUsed(f, st) == f.rand_weight

RECURSIVE CallUnit(_, _, _, _)
RECURSIVE RunModules(_, _, _, _, _)

(* Mutant: every module is given the container's input (x is not          *)
(* reassigned), the last module's output is returned.                      *)
RunModulesNoChain(ms, i, x, st, log) ==
    IF i > Len(ms) THEN Result(x, st, log)
    ELSE LET r == CallUnit(ms[i], x, st, log)
         IN IF Failed(r.out) \/ i = Len(ms) THEN r
            ELSE RunModules(ms, i + 1, x, r.st, r.log)

(* Mutant: a module that raises is skipped and the loop goes on. *)
RunModulesSwallow(ms, i, x, st, log) ==
    IF i > Len(ms) THEN Result(x, st, log)
    ELSE LET r == CallUnit(ms[i], x, st, log)
         IN IF Failed(r.out) THEN RunModules(ms, i + 1, x, r.st, r.log)
            ELSE RunModules(ms, i + 1, r.out, r.st, r.log)

(* Mutant: the modules are run from the last to the first. *)
RunModulesReversed(ms, i, x, st, log) ==
    IF i > Len(ms) THEN Result(x, st, log)
    ELSE LET r == CallUnit(ms[Len(ms) + 1 - i], x, st, log)
         IN IF Failed(r.out) THEN r
            ELSE RunModules(ms, i + 1, r.out, r.st, r.log)

(* Mutant: the modules are run in the order they were constructed in. *)
RunModulesSorted(ms, i, x, st, log) ==
    LET sm == SortSeq(ms, LAMBDA a, b : a < b) IN
    IF i > Len(sm) THEN Result(x, st, log)
    ELSE LET r == CallUnit(sm[i], x, st, log)
         IN IF Failed(r.out) THEN r
            ELSE RunModules(sm, i + 1, r.out, r.st, r.log)

(* for module in self.modules: x = module(x) -- from position i on; an     *)
(* exception raised by a module leaves the loop and the call.              *)
RunModules(ms, i, x, st, log) ==
    IF i > Len(ms) THEN Result(x, st, log)
    ELSE LET r == CallUnit(ms[i], x, st, log)
         IN IF Failed(r.out) THEN r
            ELSE RunModules(ms, i + 1, r.out, r.st, r.log)

(* Mutant: a container without modules refuses to run. *)
CallMySequentialNonEmpty(id, x, st, log) ==
    IF st.units[id].mods = <<>> THEN Result(Raise("ShapeMismatch"), st, log)
    ELSE RunModules(st.units[id].mods, 1, x, st, log)

(* Mutant: a container called as a child of another passes its input on. *)
CallMySequentialTopOnly(id, x, st, log) ==
    IF Len(log) > 1 THEN Result(x, st, log)
    ELSE RunModules(st.units[id].mods, 1, x, st, log)

CallMySequential(id, x, st, log) == RunModules(st.units[id].mods, 1, x, st, log)

(* keras Sequential: chains its layers, each output the next input. *)
CallSequential(id, x, st, log) == RunModules(st.units[id].mods, 1, x, st, log)

(* MLP.call: self.out(self.hidden(x)); NestMLP.call: self.dense(self.net(x)) *)
CallTwo(id, x, st, log) ==
    LET ms == st.units[id].mods
        h == CallUnit(ms[1], x, st, log)
    IN IF Failed(h.out) THEN h ELSE CallUnit(ms[2], h.out, h.st, h.log)

CallMLP(id, x, st, log) == CallTwo(id, x, st, log)

CallNestMLP(id, x, st, log) == CallTwo(id, x, st, log)

(* Mutant: the product with the 20 x 20 weight takes any width. *)
CallFixedHiddenMLPAnyWidth(id, x, st, log) ==
    LET f == st.units[id]
        flat == Flatten(x)
    IN IF Failed(flat) THEN Result(flat, st, log)
       ELSE LET hid == Tensor(<<flat.shape[1], FixedUnits>>,
                              Relu(flat.num * RandWeightUsed(f, st) + 1), 0)
                d == CallUnit(f.mods[1], hid, st, log)
            IN IF Failed(d.out) THEN d
               ELSE LET n == Prod(d.out.shape)
                        e == Halve(n, d.out.num, 0)
                    IN Result(Tensor(<<>>, n * d.out.num, e), d.st, d.log)

CallFixedHiddenMLP(id, x, st, log) ==
    LET f == st.units[id]
        flat == Flatten(x)
    IN IF Failed(flat) THEN Result(flat, st, log)
       ELSE IF flat.shape[2] # FixedUnits THEN Result(Raise("ShapeMismatch"), st, log)
       ELSE LET hid == Tensor(<<flat.shape[1], FixedUnits>>,
                              Relu(flat.num * RandWeightUsed(f, st) + 1), 0)
                d == CallUnit(f.mods[1], hid, st, log)
            IN IF Failed(d.out) THEN d
               ELSE LET n == Prod(d.out.shape)
                        e == Halve(n, d.out.num, 0)
                    IN Result(Tensor(<<>>, n * d.out.num, e), d.st, d.log)

Dispatch(id, x, st, log) ==
    LET k == st.units[id].kind IN
    CASE k = "Dense" -> CallDense(id, x, st, log)
      [] k = "MLP" -> CallMLP(id, x, st, log)
      [] k = "MySequential" -> CallMySequential(id, x, st, log)
      [] k = "Sequential" -> CallSequential(id, x, st, log)
      [] k = "FixedHiddenMLP" -> CallFixedHiddenMLP(id, x, st, log)
      [] k = "NestMLP" -> CallNestMLP(id, x, st, log)

(* net(x): __call__ enters the block's call and hands back what it returns. *)
(* The interpreter raises RecursionError when the calls nest too deep.      *)
CallUnit(id, x, st, log) ==
    LET entered == Append(log, Event("call", id, x))
        r == IF st.depth >= MaxCallDepth
             THEN Result(Raise("RecursionError"), st, entered)
             ELSE Dispatch(id, x, [st EXCEPT !.depth = @ + 1], entered)
    IN Result(r.out, [r.st EXCEPT !.depth = st.depth],
              Append(r.log, Event("ret", id, r.out)))

----------------------------------------------------------------------------
(* The blocks a block reaches through its children, itself included. *)

Children(S, us) == UNION {{us[i].mods[j] : j \in 1..Len(us[i].mods)} : i \in S}

RECURSIVE Closure(_, _, _)
Closure(S, us, n) == IF n = 0 THEN S ELSE Closure(S \cup Children(S, us), us, n - 1)

Reach(id, us) == Closure({id}, us, Len(us))

(* The parameters (trainable variables) that exist: those of built layers. *)
AllParams(us) ==
    {<<i, name>> : i \in {j \in 1..Len(us) : us[j].kind = "Dense" /\ us[j].built},
                   name \in {"kernel", "bias"}}

(* The parameters (trainable variables) that exist below a block. *)
Params(id, us) ==
    {<<i, name>> : i \in {j \in Reach(id, us) : us[j].kind = "Dense" /\ us[j].built},
                   name \in {"kernel", "bias"}}

(* The layers Keras has registered below a block, itself included. *)
TrackedChildren(S, us) == UNION {us[i].layers : i \in S}

RECURSIVE TrackedClosure(_, _, _)
TrackedClosure(S, us, n) ==
    IF n = 0 THEN S ELSE TrackedClosure(S \cup TrackedChildren(S, us), us, n - 1)

Tracked(id, us) == TrackedClosure({id}, us, Len(us))

(* model.trainable_variables: what an optimizer is handed. *)
TrainableVariables(id, us) ==
    {<<i, name>> : i \in {j \in Tracked(id, us) : us[j].kind = "Dense" /\ us[j].built},
                   name \in {"kernel", "bias"}}

----------------------------------------------------------------------------
(* Inputs of the exploration. *)

InputWidths == {InFeatures, OutUnits}

InputNums == {1}

Inputs == {Tensor(<<BatchSize, w>>, v, 0) : w \in InputWidths, v \in InputNums}

(* The scripts explored: each a sequence of constructor calls.  An        *)
(* argument k of MySequential stands for the k-th block the script has     *)
(* constructed.                                                            *)
Cmd(op, width, relu, args) == [op |-> op, units |-> width, relu |-> relu, args |-> args]

D(width, relu) == Cmd("Dense", width, relu, <<>>)

S(args) == Cmd("MySequential", 0, FALSE, args)

B(op) == Cmd(op, 0, FALSE, <<>>)

Q(args) == Cmd("Sequential", 0, FALSE, args)

A(c, b) == Cmd("add", 0, FALSE, <<c, b>>)

Scripts ==
    { <<D(HiddenUnits, TRUE), D(OutUnits, FALSE), S(<<1, 2>>), S(<<2, 1>>)>>,
      <<B("MLP"), B("MLP")>>,
      <<B("FixedHiddenMLP"), B("FixedHiddenMLP")>>,
      <<D(HiddenUnits, TRUE), D(OutUnits, FALSE), Q(<<1, 2>>)>>,
      <<Q(<<>>), B("NestMLP"), A(1, 2), D(FixedUnits, FALSE), A(1, 3),
        B("FixedHiddenMLP"), A(1, 4)>>,
      <<Q(<<>>), D(OutUnits, FALSE), A(1, 2), A(1, 1)>>,
      <<D(FixedUnits, TRUE), S(<<1, 1>>), S(<<1, 2, 1>>)>>,
      <<D(FixedUnits, TRUE), D(FixedUnits, FALSE), S(<<1, 2>>), S(<<2, 3, 1>>)>>,
      <<S(<<>>), D(OutUnits, FALSE), S(<<1, 2>>)>>,
      <<D(OutUnits, FALSE), B("FixedHiddenMLP"), S(<<1, 2, 1>>), S(<<1, 2>>)>>,
      <<B("FixedHiddenMLP"), D(OutUnits, FALSE), S(<<1, 2>>)>>,
      <<B("MLP"), B("FixedHiddenMLP"), S(<<1, 2>>), S(<<3>>)>> }

TopSeq == SelectSeq([i \in Ids |-> i], LAMBDA i : units[i].top)

Next1(op) == todo # <<>> /\ Head(todo).op = op

Deltas == {1}

NoCall == [unit |-> 0, x |-> Tensor(<<>>, 0, 0), out |-> Tensor(<<>>, 0, 0), log |-> <<>>,
           created |-> {}, trains |-> 0]

NoRes == [op |-> "none", arg |-> 0, devs |-> <<>>, err |-> "none", val |-> 0]

GpuIdle ==
    /\ gpus = 0
    /\ scope = <<>>
    /\ tensors = <<>>
    /\ env = [n \in {"x", "y", "z"} |-> 0]
    /\ res = NoRes

(* A float32 entry: finite (num / 2^exp), infinite, or not a number. *)
Val(kind, num, exp) == [kind |-> kind, num |-> num, exp |-> exp]

Inf == Val("inf", 0, 0)

NaN == Val("nan", 0, 0)

LoopIdle ==
    /\ hd = Val("fin", 0, 0)
    /\ hx = Val("fin", 0, 0)
    /\ hk = 0
    /\ hpc = "idle"
    /\ hret = Val("fin", 0, 0)

----------------------------------------------------------------------------
(* Operations. *)

Init ==
    /\ units = <<>>
    /\ rng \in 0..(Len(RngStream) - 1)
    /\ last = NoCall
    /\ todo \in Scripts
    /\ trains = 0
    /\ GpuIdle
    /\ LoopIdle

(* tf.keras.layers.Dense(units, activation) *)
NewDense ==
    /\ Next1("Dense")
    /\ units' = Append(units, Top(DenseLayer(Head(todo).units, Head(todo).relu)))
    /\ todo' = Tail(todo)
    /\ UNCHANGED <<rng, last, trains, gpuVars, loopVars>>

(* Mutant: the two layers are class attributes, shared by all instances. *)
NewMLPShared ==
    LET n == Len(units)
        olds == {i \in Ids : units[i].kind = "MLP"}
        old == units[CHOOSE i \in olds : TRUE]
    IN
    /\ Next1("MLP")
    /\ units' = IF olds = {}
                THEN units \o <<DenseLayer(HiddenUnits, TRUE), DenseLayer(OutUnits, FALSE),
                                Top(Track(Block("MLP", 0, FALSE, <<n + 1, n + 2>>, 0),
                                          {n + 1, n + 2}))>>
                ELSE Append(units, Top(Track(Block("MLP", 0, FALSE, old.mods, 0),
                                             old.layers)))
    /\ todo' = Tail(todo)
    /\ UNCHANGED <<rng, last, trains, gpuVars, loopVars>>

(* MLP() *)
NewMLP ==
    LET n == Len(units) IN
    /\ Next1("MLP")
    /\ units' = units \o <<DenseLayer(HiddenUnits, TRUE), DenseLayer(OutUnits, FALSE),
                           Top(Track(Block("MLP", 0, FALSE, <<n + 1, n + 2>>, 0),
                                     {n + 1, n + 2}))>>
    /\ todo' = Tail(todo)
    /\ UNCHANGED <<rng, last, trains, gpuVars, loopVars>>

(* Mutant: the blocks kept in the list self.modules are not registered. *)
NewMySequentialUntracked ==
    LET args == [i \in 1..Len(Head(todo).args) |-> TopSeq[Head(todo).args[i]]] IN
    /\ Next1("MySequential")
    /\ units' = Append(units, Top(Block("MySequential", 0, FALSE, args, 0)))
    /\ todo' = Tail(todo)
    /\ UNCHANGED <<rng, last, trains, gpuVars, loopVars>>

(* MySequential(block, ...) *)
NewMySequential ==
    LET args == [i \in 1..Len(Head(todo).args) |-> TopSeq[Head(todo).args[i]]] IN
    /\ Next1("MySequential")
    /\ units' = Append(units, Top(Track(Block("MySequential", 0, FALSE, args, 0),
                                          {args[i] : i \in 1..Len(args)})))
    /\ todo' = Tail(todo)
    /\ UNCHANGED <<rng, last, trains, gpuVars, loopVars>>

(* FixedHiddenMLP() *)
NewFixedHiddenMLP ==
    LET n == Len(units) IN
    /\ Next1("FixedHiddenMLP")
    /\ units' = units \o <<DenseLayer(FixedUnits, TRUE),
                           Top(Track(Block("FixedHiddenMLP", 0, FALSE, <<n + 1>>,
                                           UniformDraw(rng)), {n + 1}))>>
    /\ rng' = NextRng(rng)
    /\ todo' = Tail(todo)
    /\ UNCHANGED <<last, trains, gpuVars, loopVars>>

(* NestMLP() *)
NewNestMLP ==
    LET n == Len(units) IN
    /\ Next1("NestMLP")
    /\ units' = units \o <<Track(Block("Sequential", 0, FALSE, <<n + 2, n + 3>>, 0),
                                 {n + 2, n + 3}),
                           DenseLayer(NestUnits1, TRUE), DenseLayer(NestUnits2, TRUE),
                           DenseLayer(NestUnits3, TRUE),
                           Top(Track(Block("NestMLP", 0, FALSE, <<n + 1, n + 4>>, 0),
                                     {n + 1, n + 4}))>>
    /\ todo' = Tail(todo)
    /\ UNCHANGED <<rng, last, trains, gpuVars, loopVars>>

(* tf.keras.Sequential([layer, ...]); tf.keras.Sequential() *)
NewSequential ==
    LET args == [i \in 1..Len(Head(todo).args) |-> TopSeq[Head(todo).args[i]]] IN
    /\ Next1("Sequential")
    /\ units' = Append(units, Top(Track(Block("Sequential", 0, FALSE, args, 0),
                                          {args[i] : i \in 1..Len(args)})))
    /\ todo' = Tail(todo)
    /\ UNCHANGED <<rng, last, trains, gpuVars, loopVars>>

(* Mutant: add puts the new layer in front of the others. *)
AddFirst(ms, b) == <<b>> \o ms

(* Sequential.add(layer): the layer list after the add. *)
Added(ms, b) == Append(ms, b)

(* net.add(block): no check is made on the block that is added. *)
Add ==
    LET c == TopSeq[Head(todo).args[1]]
        b == TopSeq[Head(todo).args[2]] IN
    /\ Next1("add")
    /\ units' = [units EXCEPT ![c] = Track([@ EXCEPT !.mods = Added(@, b)], {b})]
    /\ todo' = Tail(todo)
    /\ UNCHANGED <<rng, last, trains, gpuVars, loopVars>>

(* net(x) *)
Call ==
    \E u \in Tops, x \in Inputs :
        LET r == CallUnit(u, x, Store, <<>>) IN
        /\ units' = r.st.units
        /\ rng' = r.st.rng
        /\ last' = [unit |-> u, x |-> x, out |-> r.out, log |-> r.log,
                     created |-> AllParams(r.st.units) \ AllParams(units),
                     trains |-> trains]
        /\ UNCHANGED <<todo, trains, gpuVars, loopVars>>

(* One update step of the external trainer on a model: every trainable     *)
(* variable below it changes; a tf.constant is none of them.               *)
(* Mutant: the constant weight is updated like a variable. *)
TrainedConstants(b, hit, dk, db) ==
    IF hit /\ b.kind = "Dense" /\ b.built
    THEN [b EXCEPT !.kernel = b.kernel + dk, !.bias = b.bias + db]
    ELSE IF hit /\ b.kind = "FixedHiddenMLP"
    THEN [b EXCEPT !.rand_weight = b.rand_weight + dk]
    ELSE b

Trained(b, hit, dk, db) ==
    IF hit /\ b.kind = "Dense" /\ b.built
    THEN [b EXCEPT !.kernel = b.kernel + dk, !.bias = b.bias + db]
    ELSE b

(* The models the trainer is handed: those that are part of no other. *)
Roots == {u \in Tops : \A c \in Ids \ {u} : u \notin Reach(c, units)}

Train ==
    \E u \in Roots, dk \in Deltas, db \in Deltas :
        /\ trains < MaxTrain
        /\ TrainableVariables(u, units) # {}
        /\ units' = [i \in Ids |-> Trained(units[i], i \in Tracked(u, units), dk, db)]
        /\ trains' = trains + 1
        /\ UNCHANGED <<rng, last, todo, gpuVars, loopVars>>

Next ==
    \/ NewDense
    \/ NewMLP
    \/ NewMySequential
    \/ NewFixedHiddenMLP
    \/ NewNestMLP
    \/ NewSequential
    \/ Add
    \/ Call
    \/ Train

Spec == Init /\ [][Next]_vars

----------------------------------------------------------------------------
(* The GPU notebook. *)

Cpu0 == [type |-> "CPU", index |-> 0]

Gpu(i) == [type |-> "GPU", index |-> i]

(* try_gpu(i): gpu(i) if len(list_physical_devices('GPU')) >= i + 1, else cpu *)
try_gpu(i) == IF gpus >= i + 1 THEN Gpu(i) ELSE Cpu0

(* Mutant: no fallback to the CPU. *)
try_all_gpus_no_fallback == [k \in 1..gpus |-> Gpu(k - 1)]

(* try_all_gpus(): [gpu(i) for i in range(num_gpus)], or [cpu] if that is empty *)
try_all_gpus ==
    LET ctxes == [k \in 1..gpus |-> Gpu(k - 1)]
    IN IF ctxes # <<>> THEN ctxes ELSE <<Cpu0>>

(* A device the machine has. *)
Exists(dev) == dev = Cpu0 \/ (dev.type = "GPU" /\ dev.index \in 0..(gpus - 1))

(* Mutant: a device scope has no effect on where tensors are created. *)
CurrentDeviceCpu == Cpu0

(* Where a tensor created now is stored. *)
CurrentDevice == IF scope = <<>> THEN Cpu0 ELSE scope[Len(scope)]

Names == {"x", "y", "z"}

TryIndices == -1..(MaxGpus + 1)

ScopeIndices == 0..MaxGpus

TensorVals == {1}

BlocksIdle ==
    /\ units = <<>>
    /\ rng = 0
    /\ last = NoCall
    /\ todo = <<>>
    /\ trains = 0

GpuInit ==
    /\ BlocksIdle
    /\ LoopIdle
    /\ gpus \in 0..MaxGpus
    /\ scope = <<>>
    /\ tensors = <<>>
    /\ env = [n \in Names |-> 0]
    /\ res = NoRes

(* try_gpu(i) *)
CallTryGpu ==
    \E i \in TryIndices :
        /\ res' = [op |-> "try_gpu", arg |-> i, devs |-> <<try_gpu(i)>>,
                   err |-> "none", val |-> 0]
        /\ UNCHANGED <<gpus, scope, tensors, env, blockVars, loopVars>>

(* try_all_gpus() *)
CallTryAllGpus ==
    /\ res' = [op |-> "try_all_gpus", arg |-> 0, devs |-> try_all_gpus,
               err |-> "none", val |-> 0]
    /\ UNCHANGED <<gpus, scope, tensors, env, blockVars, loopVars>>

(* with try_gpu(i): *)
EnterScope ==
    \E i \in ScopeIndices :
        /\ Len(scope) < MaxDepth
        /\ scope' = Append(scope, try_gpu(i))
        /\ res' = [op |-> "with", arg |-> i, devs |-> <<try_gpu(i)>>,
                   err |-> "none", val |-> 0]
        /\ UNCHANGED <<gpus, tensors, env, blockVars, loopVars>>

(* the end of a with block *)
ExitScope ==
    /\ scope # <<>>
    /\ scope' = Front(scope)
    /\ res' = [op |-> "end", arg |-> 0, devs |-> <<>>, err |-> "none", val |-> 0]
    /\ UNCHANGED <<gpus, tensors, env, blockVars, loopVars>>

(* name = tf.ones(...) / tf.constant(...) / tf.random.uniform(...) *)
CreateTensor ==
    \E n \in Names, v \in TensorVals :
        /\ Len(tensors) < MaxTensors
        /\ tensors' = Append(tensors, [device |-> CurrentDevice, val |-> v])
        /\ env' = [env EXCEPT ![n] = Len(tensors) + 1]
        /\ res' = [op |-> "create", arg |-> Len(tensors) + 1, devs |-> <<CurrentDevice>>,
                   err |-> "none", val |-> v]
        /\ UNCHANGED <<gpus, scope, blockVars, loopVars>>

(* Mutant: binding under a scope makes a copy on the scope's device. *)
BindCopy ==
    \E dst \in Names, src \in Names :
        /\ env[src] # 0
        /\ Len(tensors) <= MaxTensors
        /\ tensors' = Append(tensors, [device |-> CurrentDevice,
                                       val |-> tensors[env[src]].val])
        /\ env' = [env EXCEPT ![dst] = Len(tensors) + 1]
        /\ res' = [op |-> "bind", arg |-> env[src],
                   devs |-> <<CurrentDevice, tensors[env[src]].device>>,
                   err |-> "none", val |-> tensors[env[src]].val]
        /\ UNCHANGED <<gpus, scope, blockVars, loopVars>>

(* dst = src (as in `with try_gpu(1): z = x`): the name dst is bound to    *)
(* the object src names; no tensor is made.                                *)
Bind ==
    \E dst \in Names, src \in Names :
        /\ env[src] # 0
        /\ env' = [env EXCEPT ![dst] = env[src]]
        /\ res' = [op |-> "bind", arg |-> env[src],
                   devs |-> <<CurrentDevice, tensors[env[src]].device>>,
                   err |-> "none", val |-> tensors[env[src]].val]
        /\ UNCHANGED <<gpus, scope, tensors, blockVars, loopVars>>

(* a + b: the sum of the two tensors, entry by entry *)
AddResult(ta, tb) ==
    [op |-> "add", arg |-> 0, devs |-> <<ta.device, tb.device>>, err |-> "none",
     val |-> ta.val + tb.val]

AddTensors ==
    \E a \in Names, b \in Names :
        /\ env[a] # 0
        /\ env[b] # 0
        /\ res' = AddResult(tensors[env[a]], tensors[env[b]])
        /\ UNCHANGED <<gpus, scope, tensors, env, blockVars, loopVars>>

GpuNext ==
    \/ CallTryGpu
    \/ CallTryAllGpus
    \/ EnterScope
    \/ ExitScope
    \/ CreateTensor
    \/ Bind
    \/ AddTensors

SpecGpu == GpuInit /\ [][GpuNext]_vars

----------------------------------------------------------------------------
(* The end of FixedHiddenMLP.call, step by step:                           *)
(*     while tf.norm(x) > 1: x /= 2                                        *)
(*     return tf.reduce_sum(x)                                             *)
(* on the output x of self.dense, a tensor of LoopEntries float32 entries. *)
(* All entries are alike: a finite value >= 0 (the layer ends in relu),    *)
(* +inf (the product overflowed), or NaN.                                  *)

LoopEntries == BatchSize * FixedUnits

DenseOutputs == {Val("fin", v, 0) : v \in 0..MaxVal} \cup {Inf, NaN}

(* tf.norm(x) > 1: true of +inf, false of NaN (every comparison with NaN   *)
(* is false).                                                              *)
NormGt1(x) ==
    CASE x.kind = "fin" -> NormAboveOne(LoopEntries, x.num, x.exp)
      [] x.kind = "inf" -> TRUE
      [] x.kind = "nan" -> FALSE

(* Mutant: x /= 4 *)
Quarter(x) == IF x.kind = "fin" THEN [x EXCEPT !.exp = @ + 2] ELSE x

(* x / 2: exact for a finite float, inf / 2 = inf, NaN / 2 = NaN *)
Half(x) == IF x.kind = "fin" THEN [x EXCEPT !.exp = @ + 1] ELSE x

(* tf.reduce_sum(x) *)
ReduceSum(x) == IF x.kind = "fin" THEN Val("fin", LoopEntries * x.num, x.exp) ELSE x

BlocksAndGpuIdle == BlocksIdle /\ GpuIdle

(* x = self.dense(x): the loop is reached with the layer's output. *)
HalveInit ==
    /\ BlocksAndGpuIdle
    /\ hd \in DenseOutputs
    /\ hx = hd
    /\ hk = 0
    /\ hpc = "loop"
    /\ hret = Val("fin", 0, 0)

(* one iteration: the condition holds, x /= 2 *)
HalveStep ==
    /\ hpc = "loop"
    /\ NormGt1(hx)
    /\ hx' = Half(hx)
    /\ hk' = IF hk < MaxIter THEN hk + 1 ELSE hk
    /\ UNCHANGED <<hd, hpc, hret, blockVars, gpuVars>>

(* the condition fails: return tf.reduce_sum(x) *)
HalveReturn ==
    /\ hpc = "loop"
    /\ ~NormGt1(hx)
    /\ hpc' = "done"
    /\ hret' = ReduceSum(hx)
    /\ UNCHANGED <<hd, hx, hk, blockVars, gpuVars>>

HalveNext ==
    \/ HalveStep
    \/ HalveReturn

(* The interpreter keeps running the call: a step that can be taken is     *)
(* taken.                                                                  *)
SpecHalve == HalveInit /\ [][HalveNext]_vars /\ WF_vars(HalveNext)

----------------------------------------------------------------------------
(* Properties of the blocks. *)

Kind(id) == units[id].kind

IsContainer(id) == Kind(id) = "MySequential"

Out(u, x) == CallUnit(u, x, Store, <<>>).out

(* u_n(...u_2(u_1(x))...), written from the outside in. *)
RECURSIVE Chain(_, _, _)
Chain(ms, x, st) ==
    IF ms = <<>> THEN Result(x, st, <<>>)
    ELSE LET inner == Chain(Front(ms), x, st)
         IN IF Failed(inner.out) THEN inner
            ELSE CallUnit(ms[Len(ms)], inner.out, inner.st, <<>>)

(* The leaves of a list of blocks, containers replaced by their modules. *)
RECURSIVE Leaves(_, _)
Leaves(ms, n) ==
    IF ms = <<>> THEN <<>>
    ELSE (IF IsContainer(Head(ms)) /\ n > 0
          THEN Leaves(units[Head(ms)].mods, n - 1) ELSE <<Head(ms)>>)
         \o Leaves(Tail(ms), n)

(* The nesting depth of the frame event p of a log belongs to. *)
DepthAt(log, p) ==
    Cardinality({q \in 1..p : log[q].ev = "call"})
    - Cardinality({q \in 1..(p - 1) : log[q].ev = "ret"})

(* The calls and returns of the children of the block that was called. *)
ChildCalls(log) == SelectSeq([p \in 1..Len(log) |-> p],
                             LAMBDA p : log[p].ev = "call" /\ DepthAt(log, p) = 2)

ChildRets(log) == SelectSeq([p \in 1..Len(log) |-> p],
                            LAMBDA p : log[p].ev = "ret" /\ DepthAt(log, p) = 2)

FullyBuilt(u) == \A j \in Reach(u, units) : Kind(j) = "Dense" => units[j].built

(* Shape and value of every parameter that exists. *)
ParamState ==
    [i \in {j \in Ids : Kind(j) = "Dense" /\ units[j].built} |->
        <<units[i].in_dim, units[i].units, units[i].kernel, units[i].bias>>]

(* C1: calling a MySequential of n >= 1 blocks on an input every block     *)
(* accepts returns u_n(...u_2(u_1(x))...), and leaves the blocks as that    *)
(* chain of calls leaves them.                                             *)
C1_Chains ==
    \A c \in Tops, x \in Inputs :
        (IsContainer(c) /\ Len(units[c].mods) >= 1) =>
            LET r == CallUnit(c, x, Store, <<>>)
                ref == Chain(units[c].mods, x, Store)
            IN ~Failed(ref.out) => (r.out = ref.out /\ r.st = ref.st)

C1_Witness ==
    /\ last.unit # 0
    /\ IsContainer(last.unit)
    /\ Len(units[last.unit].mods) >= 2
    /\ ~Failed(last.out)
    /\ last.out # last.x

(* C2: a MySequential without blocks can be constructed, and calling it    *)
(* returns its input unchanged.                                            *)
C2_EmptyIsIdentity ==
    /\ \A c \in Tops, x \in Inputs :
           (IsContainer(c) /\ units[c].mods = <<>>) =>
               LET r == CallUnit(c, x, Store, <<>>)
               IN r.out = x /\ r.st = Store
    /\ (last.unit # 0 /\ IsContainer(last.unit) /\ units[last.unit].mods = <<>>)
           => last.out = last.x

C2_Witness ==
    /\ last.unit # 0
    /\ IsContainer(last.unit)
    /\ units[last.unit].mods = <<>>
    /\ last.out = last.x

(* C3: a MySequential whose modules include MySequentials returns, on every *)
(* input, what the flat MySequential of its leaves in order returns.        *)
C3_NestingFlattens ==
    \A c \in Tops, x \in Inputs :
        IsContainer(c) =>
            LET r == CallUnit(c, x, Store, <<>>)
                flat == RunModules(Leaves(units[c].mods, Len(units)), 1, x, Store, <<>>)
            IN r.out = flat.out /\ r.st = flat.st

C3_Witness ==
    /\ last.unit # 0
    /\ IsContainer(last.unit)
    /\ ~Failed(last.out)
    /\ LET ms == units[last.unit].mods
       IN /\ Len(ms) = 3
          /\ ~IsContainer(ms[1])
          /\ IsContainer(ms[2])
          /\ Len(units[ms[2]].mods) = 2
          /\ ~IsContainer(ms[3])
          /\ last.out # last.x

C5_ConstantKept ==
    [][\A i \in Ids :
          Kind(i) = "FixedHiddenMLP" =>
              /\ units'[i].rand_weight = units[i].rand_weight
              /\ RandWeightUsed(units'[i], Store') = units[i].rand_weight]_vars

C5_Witness ==
    /\ last.unit # 0
    /\ Kind(last.unit) = "FixedHiddenMLP"
    /\ ~Failed(last.out)
    /\ last.trains >= 1
    /\ units[units[last.unit].mods[1]].bias # 0

(* C7: when a module of a MySequential raises, the call of the container   *)
(* raises that error, the modules before it were called once each in       *)
(* order, and no module after it is called.                                *)
C7_FailurePropagates ==
    (last.unit # 0 /\ IsContainer(last.unit)) =>
        LET log == last.log
            calls == ChildCalls(log)
            rets == ChildRets(log)
            ms == units[last.unit].mods
        IN /\ Len(calls) = Len(rets)
           /\ Len(calls) <= Len(ms)
           /\ \A k \in 1..Len(calls) : log[calls[k]].unit = ms[k]
           /\ \A k \in 1..Len(rets) :
                  Failed(log[rets[k]].t) =>
                      /\ k = Len(rets)
                      /\ rets[k] = Len(log) - 1
                      /\ last.out = log[rets[k]].t
           /\ (\A k \in 1..Len(rets) : ~Failed(log[rets[k]].t)) =>
                  (~Failed(last.out) /\ Len(calls) = Len(ms))

C7_Witness ==
    /\ last.unit # 0
    /\ IsContainer(last.unit)
    /\ Failed(last.out)
    /\ Len(units[last.unit].mods) = 3
    /\ Len(ChildCalls(last.log)) = 2

(* A step that adds a layer to a container. *)
Adding == Next1("add") /\ todo' = Tail(todo)

(* C8: with no update step in between, a call on a block whose layers are  *)
(* built returns the same output before and after any other step that      *)
(* leaves the block as it is (a call or the construction of a block), and  *)
(* repeating a call straight after it was made returns what it returned.   *)
C8_Deterministic ==
    [][/\ (trains' = trains /\ ~Adding /\ Store' # Store) =>
            \A u \in Tops, x \in Inputs :
                FullyBuilt(u) => CallUnit(u, x, Store', <<>>).out = Out(u, x)
       /\ (last'.unit # 0 /\ last' # last) =>
            CallUnit(last'.unit, last'.x, Store', <<>>).out = last'.out]_vars

C8_Witness ==
    /\ last.unit # 0
    /\ Kind(last.unit) = "FixedHiddenMLP"
    /\ ~Failed(last.out)
    /\ last.created = {}
    /\ last.trains = trains

(* The perceptron of the notebook: Dense(256, relu) then Dense(10), on 20  *)
(* features (a layer that is built was built for that width).              *)
IsTwoLinear(u) ==
    /\ Kind(u) \in {"Sequential", "MLP", "MySequential"}
    /\ Len(units[u].mods) = 2
    /\ LET h == units[units[u].mods[1]]
           o == units[units[u].mods[2]]
       IN /\ h.kind = "Dense" /\ h.units = HiddenUnits /\ h.relu
          /\ h.built => h.in_dim = InFeatures
          /\ o.kind = "Dense" /\ o.units = OutUnits /\ ~o.relu
          /\ o.built => o.in_dim = HiddenUnits

(* The batches of the notebook: 2 vectors of length 20. *)
Batches == {x \in Inputs : x.shape = <<BatchSize, InFeatures>>}

(* C11: the perceptron, built as Sequential, as MLP or as MySequential,    *)
(* maps a batch of shape (2, 20) to an output of shape (2, 10).            *)
C11_OutputShape ==
    \A u \in Tops, x \in Batches :
        IsTwoLinear(u) =>
            (~Failed(Out(u, x)) /\ Out(u, x).shape = <<BatchSize, OutUnits>>)

C11_Witness ==
    /\ last.unit # 0
    /\ Kind(last.unit) = "Sequential"
    /\ IsTwoLinear(last.unit)
    /\ last.x \in Batches
    /\ last.out.shape = <<BatchSize, OutUnits>>
    /\ units[units[last.unit].mods[2]].in_dim = HiddenUnits

(* C12: running the two layers of the perceptron in the other order on    *)
(* the same batch gives another output than the perceptron gives.          *)
C12_OrderMatters ==
    \A u \in Tops, x \in Batches :
        IsTwoLinear(u) =>
            LET ms == units[u].mods
            IN RunModules(<<ms[2], ms[1]>>, 1, x, Store, <<>>).out # Out(u, x)

C12_Witness ==
    /\ last.unit # 0
    /\ Kind(last.unit) = "MySequential"
    /\ IsTwoLinear(last.unit)
    /\ last.x \in Batches
    /\ ~Failed(last.out)
    /\ \E c \in Tops :
           /\ Kind(c) = "MySequential"
           /\ units[c].mods = <<units[last.unit].mods[2], units[last.unit].mods[1]>>
           /\ Out(c, last.x) # last.out

(* The width a tensor has once it is flattened (0: it has no batch axis). *)
FlatWidth(t) == IF t.shape = <<>> THEN 0 ELSE Prod(Tail(t.shape))

(* The input of the call logged at p does not fit the block called. *)
Misfit(log, p) ==
    LET b == units[log[p].unit]
        t == log[p].t
    IN \/ b.kind = "FixedHiddenMLP" /\ FlatWidth(t) # FixedUnits
       \/ b.kind = "Dense" /\ (Len(t.shape) < 2
                                \/ (b.built /\ t.shape[Len(t.shape)] # b.in_dim))

(* C13: a FixedHiddenMLP called on an input that does not flatten to width *)
(* 20, and a Dense layer called on another width than it was built for,    *)
(* raise ShapeMismatch at once and change nothing, also when they are      *)
(* called as a child of a container.                                       *)
C13_ShapeMismatch ==
    /\ \A u \in Tops, x \in Inputs :
           Misfit(<<Event("call", u, x)>>, 1) =>
               LET r == CallUnit(u, x, Store, <<>>)
               IN r.out = Raise("ShapeMismatch") /\ r.st = Store
    /\ \A p \in 1..Len(last.log) :
           (last.log[p].ev = "call" /\ Misfit(last.log, p)) =>
               /\ last.log[p + 1] = Event("ret", last.log[p].unit, Raise("ShapeMismatch"))
               /\ last.out = Raise("ShapeMismatch")

C13_Witness ==
    /\ last.unit # 0
    /\ Kind(last.unit) = "MySequential"
    /\ LET ms == units[last.unit].mods
           log == last.log
       IN /\ Len(ms) = 2
          /\ Kind(ms[2]) = "FixedHiddenMLP"
          /\ Len(log) = 6
          /\ log[3] = Event("ret", ms[1], log[3].t)
          /\ ~Failed(log[3].t)
          /\ FlatWidth(log[3].t) = OutUnits
          /\ log[4] = Event("call", ms[2], log[3].t)
          /\ last.out = Raise("ShapeMismatch")

(* C14 as claimed: no container is among its own descendants, and no call *)
(* recurses into the block it is a call of.                                *)
C14_NoCycle ==
    /\ \A c \in Ids :
           \A j \in 1..Len(units[c].mods) : c \notin Reach(units[c].mods[j], units)
    /\ last.out # Raise("RecursionError")

Listing == (Next1("MySequential") \/ Next1("Sequential")) /\ todo' = Tail(todo)

(* C16: an add puts the block at the end of the container's list and       *)
(* leaves the rest of the list and every other list alone; a constructor   *)
(* keeps its arguments in their order; no step removes or reorders a       *)
(* block of a list.                                                        *)
C16_AddAppends ==
    [][/\ \A i \in Ids :
              /\ Len(units') >= i
              /\ Len(units'[i].mods) >= Len(units[i].mods)
              /\ SubSeq(units'[i].mods, 1, Len(units[i].mods)) = units[i].mods
       /\ Adding =>
              LET c == TopSeq[Head(todo).args[1]]
                  b == TopSeq[Head(todo).args[2]]
              IN /\ units'[c].mods = units[c].mods \o <<b>>
                 /\ \A i \in Ids \ {c} : units'[i].mods = units[i].mods
       /\ ~Adding => \A i \in Ids : units'[i].mods = units[i].mods
       /\ Listing =>
              units'[Len(units')].mods =
                  [k \in 1..Len(Head(todo).args) |-> TopSeq[Head(todo).args[k]]]]_vars

C16_Witness ==
    /\ todo = <<>>
    /\ \E c \in Tops :
           /\ Kind(c) = "Sequential"
           /\ Len(units[c].mods) = 3
           /\ Kind(units[c].mods[1]) = "NestMLP"
           /\ Kind(units[c].mods[2]) = "Dense"
           /\ Kind(units[c].mods[3]) = "FixedHiddenMLP"

(* The layers below a block with their parameters. *)
LayersOf(u, us) ==
    [i \in {j \in Reach(u, us) : us[j].kind = "Dense"} |->
        <<us[i].built, us[i].in_dim, us[i].kernel, us[i].bias>>]

(* C17: two MLP instances have no layer in common, and an update step     *)
(* that changes the parameters of one leaves the parameters of the other   *)
(* and what the other returns on every input as they were.                 *)
C17_InstancesIndependent ==
    [][\A u, v \in {m \in Tops : Kind(m) = "MLP"} :
          u # v =>
              /\ Reach(u, units) \cap Reach(v, units) = {}
              /\ (trains' # trains /\ LayersOf(u, units') # LayersOf(u, units)) =>
                     /\ LayersOf(v, units') = LayersOf(v, units)
                     /\ \A x \in Inputs :
                            CallUnit(v, x, Store', <<>>).out = Out(v, x)]_vars

C17_Witness ==
    /\ trains >= 1
    /\ last.unit # 0
    /\ last.trains = trains
    /\ \E u \in Tops :
           /\ u # last.unit
           /\ Kind(u) = "MLP"
           /\ Kind(last.unit) = "MLP"
           /\ FullyBuilt(u)
           /\ FullyBuilt(last.unit)
           /\ \A j \in 1..2 : units[units[u].mods[j]].bias # 0
           /\ \A j \in 1..2 : units[units[last.unit].mods[j]].bias = 0

(* The calls a logged forward pass made of block id. *)
CallsOf(log, id) == {p \in 1..Len(log) : log[p].ev = "call" /\ log[p].unit = id}

(* C21 as claimed: a forward pass of a FixedHiddenMLP that returns has      *)
(* applied its layer self.dense more than once.                            *)
C21_DenseReused ==
    (last.unit # 0 /\ Kind(last.unit) = "FixedHiddenMLP" /\ ~Failed(last.out)) =>
        Cardinality(CallsOf(last.log, units[last.unit].mods[1])) >= 2

(* C23: a call of a container that returns has called every module of its *)
(* list once, in list order, each only after the one before it returned,   *)
(* and nothing else in between.                                            *)
C23_OneAtATimeInOrder ==
    [][(/\ last' # last
        /\ last'.unit # 0
        /\ Kind(last'.unit) \in {"MySequential", "Sequential"}
        /\ ~Failed(last'.out)) =>
          LET log == last'.log
              calls == ChildCalls(log)
              rets == ChildRets(log)
              ms == units[last'.unit].mods
          IN /\ Len(calls) = Len(ms)
             /\ Len(rets) = Len(ms)
             /\ \A k \in 1..Len(ms) :
                    /\ log[calls[k]].unit = ms[k]
                    /\ log[rets[k]].unit = ms[k]
                    /\ calls[k] < rets[k]
                    /\ calls[k] = IF k = 1 THEN 2 ELSE rets[k - 1] + 1
             /\ (ms # <<>>) => rets[Len(ms)] = Len(log) - 1]_vars

C23_Witness ==
    /\ last.unit # 0
    /\ IsContainer(last.unit)
    /\ ~Failed(last.out)
    /\ Len(units[last.unit].mods) = 3
    /\ Len(ChildCalls(last.log)) = 3
    /\ units[last.unit].mods[1] # units[last.unit].mods[2]

----------------------------------------------------------------------------
(* Properties of the GPU notebook. *)

(* C6 as claimed: adding two tensors stored on different devices fails     *)
(* with PlacementMismatch, and a name bound under `with try_gpu(i):` names *)
(* a tensor stored on the device of that scope.                            *)
C6_PlacementChecked ==
    /\ (res.op = "add" /\ res.devs[1] # res.devs[2]) => res.err = "PlacementMismatch"
    /\ res.op = "bind" => res.devs[2] = res.devs[1]

(* C9 as claimed: try_gpu(i) returns GPU i when GPU i exists and CPU 0     *)
(* otherwise, so never a device the machine lacks.                         *)
C9_TryGpu ==
    res.op = "try_gpu" =>
        /\ res.devs[1] = (IF Exists(Gpu(res.arg)) THEN Gpu(res.arg) ELSE Cpu0)
        /\ Exists(res.devs[1])

(* C10: try_all_gpus() returns GPU 0 .. GPU n-1 in order when there are    *)
(* n >= 1 GPUs and the list of CPU 0 alone when there is none.             *)
C10_TryAllGpus ==
    res.op = "try_all_gpus" =>
        /\ res.devs # <<>>
        /\ gpus >= 1 => (Len(res.devs) = gpus
                         /\ \A k \in 1..gpus : res.devs[k] = Gpu(k - 1))
        /\ gpus = 0 => res.devs = <<Cpu0>>

C10_Witness ==
    /\ res.op = "try_all_gpus"
    /\ gpus >= 2
    /\ Len(res.devs) = gpus

(* C18: a tensor created outside every device scope is stored on CPU 0, a *)
(* tensor created inside `with try_gpu(i):` on the device try_gpu(i)       *)
(* returned, and after the scope is left on CPU 0 again.                   *)
C18_ScopePlacement ==
    /\ \A k \in 1..Len(scope) : scope[k] \in {try_gpu(i) : i \in ScopeIndices}
    /\ res.op = "with" => scope[Len(scope)] = try_gpu(res.arg)
    /\ res.op = "create" =>
           /\ res.arg = Len(tensors)
           /\ scope = <<>> => tensors[res.arg].device = Cpu0
           /\ scope # <<>> => tensors[res.arg].device = scope[Len(scope)]

C18_Witness ==
    /\ res.op = "create"
    /\ scope = <<>>
    /\ Len(tensors) = 2
    /\ tensors[1].device = Gpu(0)
    /\ tensors[2].device = Cpu0

(* C22: binding a name, under a device scope, to a tensor that is stored  *)
(* on that scope's device gives the very same tensor (dst is src): no      *)
(* tensor is made or changed, and doing it again changes nothing.          *)
C22_SameTensor ==
    [][(res'.op = "bind" /\ res'.devs[1] = res'.devs[2]) =>
          /\ tensors' = tensors
          /\ res'.arg \in {env[n] : n \in Names} \ {0}
          /\ \E dst \in Names :
                 /\ env' = [env EXCEPT ![dst] = res'.arg]
                 /\ [env' EXCEPT ![dst] = res'.arg] = env']_vars

C22_Witness ==
    /\ res.op = "bind"
    /\ scope = <<Gpu(1)>>
    /\ res.devs = <<Gpu(1), Gpu(1)>>
    /\ Cardinality({n \in Names : env[n] = res.arg}) >= 2

----------------------------------------------------------------------------
(* Properties of the halving loop. *)

(* norm(x) <= 1 *)
NormAtMostOne(x) == x.kind = "fin" /\ ~NormAboveOne(LoopEntries, x.num, x.exp)

(* norm(a) < norm(b) *)
NormLess(a, b) ==
    \/ a.kind = "fin" /\ b.kind = "inf"
    \/ /\ a.kind = "fin" /\ b.kind = "fin"
       /\ a.num * a.num * Pow(4, b.exp) < b.num * b.num * Pow(4, a.exp)

(* C19 as claimed: what the call sums always has norm <= 1, and it is d    *)
(* halved k times for the least k that brings the norm to 1 or below.      *)
C19_NormAtMostOne ==
    hpc = "done" =>
        /\ NormAtMostOne(hx)
        /\ hret = ReduceSum(hx)
        /\ \A j \in 0..(hk - 1) : NormGt1([hd EXCEPT !.exp = j])

(* C19 as amended: for a dense output d with finite entries the call       *)
(* returns the sum of the entries of d / 2^k, k the least k >= 0 with      *)
(* norm(d / 2^k) <= 1 (k = 0 when norm(d) <= 1); a d with a NaN entry is   *)
(* summed as it is.                                                        *)
C19_HalvedSum ==
    hpc = "done" =>
        /\ hd.kind = "fin" =>
               /\ hx = Val("fin", hd.num, hk)
               /\ hret = Val("fin", LoopEntries * hd.num, hk)
               /\ NormAtMostOne(hx)
               /\ \A j \in 0..(hk - 1) : NormAboveOne(LoopEntries, hd.num, j)
               /\ hk = Halve(LoopEntries, hd.num, 0)
        /\ hd.kind = "nan" => (hk = 0 /\ hret = NaN)
        /\ hd.kind # "inf"

C19_Witness ==
    /\ hpc = "done"
    /\ hd.kind = "fin"
    /\ hk >= 3
    /\ hret.exp = hk

(* C20 as claimed: the loop ends and the call returns, whatever the dense  *)
(* layer put out, and every iteration makes the norm strictly smaller.     *)
C20_Terminates ==
    /\ <>(hpc = "done")
    /\ [][hk' # hk => NormLess(hx', hx)]_vars

====
